---- MODULE Spec2Model ----
(***************************************************************************)
(* Model of terraform-provider-aidbox: the aidboxclient RPC client (both   *)
(* drafts of CreateLicense, GetLicense, DeleteLicense, makeAPICall,        *)
(* parseYAMLResponse) and the two drafts of the license resource's         *)
(* lifecycle handlers (Create, Read, Update, Delete, ImportState),         *)
(* together with the Configure of the two providers and of the resource.   *)
(* ClientSpec runs the client, Spec the lifecycle handlers of a configured *)
(* resource, ConfigSpec the configuration that precedes them.              *)
(***************************************************************************)
EXTENDS Integers, Sequences, FiniteSets, TLC

(***************************************************************************)
(* Bounds of the model.                                                    *)
(***************************************************************************)
\* number of distinct names / ids / plan ids the inputs are drawn from
MaxNames == 2
MaxIds == 2

AllNames == <<"acme", "beta", "gamma", "delta">>
AllIds == <<"lic-1", "lic-2", "lic-3", "lic-4">>
Names == {AllNames[i] : i \in 1..MaxNames}
Ids == {AllIds[i] : i \in 1..MaxIds}
LicenseTypes == {"standard", "development"}
Products == {"aidbox", "fhirbase"}

(***************************************************************************)
(* Response bodies.  A body is its raw text together with the document     *)
(* the text denotes: form says what the text is (empty, a plain scalar,    *)
(* syntactically broken, a block-style YAML mapping, a JSON object, which  *)
(* is also a YAML flow mapping), top gives the kind of value under each    *)
(* top-level key, and lic / jwt give the contents of result.license and    *)
(* result.jwt when the mapping has them.  A license document spells the    *)
(* instance limit both ways, max-instances (the struct's yaml tag) and     *)
(* maxInstances.                                                           *)
(***************************************************************************)
StrV(s) == [t |-> "str", s |-> s, n |-> 0]
IntV(n, s) == [t |-> "int", s |-> s, n |-> n]
BoolV(b, s) == [t |-> "bool", s |-> s, n |-> IF b THEN 1 ELSE 0]

NoLic == [x \in {} |-> StrV("")]
NoTop == [x \in {} |-> "null"]

LicDoc(id, name, product, type) ==
  [k \in {"id", "name", "product", "type", "status", "max-instances", "maxInstances", "offline"} |->
     CASE k = "id" -> StrV(id)
       [] k = "name" -> StrV(name)
       [] k = "product" -> StrV(product)
       [] k = "type" -> StrV(type)
       [] k = "status" -> StrV("active")
       [] k = "offline" -> BoolV(FALSE, "false")
       [] OTHER -> IntV(5, "5")]

BodyEmpty == [raw |-> "", form |-> "empty", top |-> NoTop, lic |-> NoLic, jwt |-> ""]
BodyText == [raw |-> "internal error", form |-> "scalar", top |-> NoTop, lic |-> NoLic, jwt |-> ""]
BodyBroken == [raw |-> "result: [", form |-> "broken", top |-> NoTop, lic |-> NoLic, jwt |-> ""]
BodyEmptyMap == [raw |-> "{}", form |-> "json", top |-> NoTop, lic |-> NoLic, jwt |-> ""]
BodyErrorMap == [raw |-> "error: not found", form |-> "yaml",
                 top |-> [k \in {"error"} |-> "scalar"], lic |-> NoLic, jwt |-> ""]
BodyYAML(id, name, product, type) ==
  [raw |-> "result:\n  license:\n    id: " \o id \o "\n    name: " \o name
           \o "\n    product: " \o product \o "\n    type: " \o type
           \o "\n    status: active\n    max-instances: 5\n    maxInstances: 5"
           \o "\n    offline: false\n  jwt: abc.def.ghi",
   form |-> "yaml", top |-> [k \in {"result"} |-> "mapping"],
   lic |-> LicDoc(id, name, product, type), jwt |-> "abc.def.ghi"]
BodyJSON(id, name, product, type) ==
  [raw |-> "{\"result\": {\"license\": {\"id\": \"" \o id \o "\", \"name\": \"" \o name
           \o "\", \"product\": \"" \o product \o "\", \"type\": \"" \o type
           \o "\", \"status\": \"active\", \"max-instances\": 5, \"maxInstances\": 5"
           \o ", \"offline\": false}, \"jwt\": \"abc.def.ghi\"}}",
   form |-> "json", top |-> [k \in {"result"} |-> "mapping"],
   lic |-> LicDoc(id, name, product, type), jwt |-> "abc.def.ghi"]
BodyFlatJSON(id) ==
  [raw |-> "{\"id\": \"" \o id \o "\", \"jwt\": \"abc.def.ghi\", \"max_instances\": 5}",
   form |-> "json",
   top |-> [k \in {"id", "jwt", "max_instances"} |-> "scalar"],
   lic |-> NoLic, jwt |-> ""]
BodyNestedJSON == [raw |-> "{\"id\": {}}", form |-> "json",
                   top |-> [k \in {"id"} |-> "mapping"], lic |-> NoLic, jwt |-> ""]
BodyBadInt ==
  [raw |-> "result:\n  license:\n    max-instances: many", form |-> "yaml",
   top |-> [k \in {"result"} |-> "mapping"],
   lic |-> [k \in {"max-instances"} |-> StrV("many")], jwt |-> ""]

Bodies ==
  {BodyEmpty, BodyText, BodyBroken, BodyEmptyMap, BodyErrorMap, BodyNestedJSON, BodyBadInt}
  \cup {BodyYAML(i, "acme", "aidbox", "standard") : i \in Ids}
  \cup {BodyJSON(i, "acme", "aidbox", "standard") : i \in Ids}
  \cup {BodyFlatJSON(AllIds[1])}


(***************************************************************************)
(* The HTTP exchange offered to one invocation: what Client.Do and         *)
(* ioutil.ReadAll return.  err is the transport error ("" is nil); resp    *)
(* says whether Do returned a response (it returns none on a connection    *)
(* failure, and one together with the error when the redirect policy       *)
(* fails); readErr is the error of reading the body.                       *)
(***************************************************************************)
Statuses == {200, 500}

StatusText(s) ==
  CASE s = 200 -> "200 OK"
    [] s = 302 -> "302 Found"
    [] s = 404 -> "404 Not Found"
    [] s = 500 -> "500 Internal Server Error"
    [] OTHER -> ""

ExchNoResponse ==
  [err |-> "dial tcp: connection refused", resp |-> FALSE, status |-> 0,
   body |-> BodyEmpty, readErr |-> ""]
ExchRedirect ==
  [err |-> "stopped after 10 redirects", resp |-> TRUE, status |-> 302,
   body |-> BodyEmpty, readErr |-> ""]
ExchReadFail(s) ==
  [err |-> "", resp |-> TRUE, status |-> s, body |-> BodyEmpty, readErr |-> "unexpected EOF"]
ExchResponse(s, b) ==
  [err |-> "", resp |-> TRUE, status |-> s, body |-> b, readErr |-> ""]

Exchanges ==
  {ExchNoResponse, ExchRedirect}
  \cup {ExchReadFail(s) : s \in Statuses}
  \cup {ExchResponse(s, b) : s \in Statuses, b \in Bodies}

\* an endpoint that answers 200 with a license carrying the name, product and
\* type it was sent
EchoExchanges ==
  {ExchResponse(200, BodyYAML(AllIds[1], n, p, t)) :
     n \in Names, p \in Products, t \in LicenseTypes}

\* the exchange of an operation that never reached Client.Do
NoExchange ==
  [err |-> "", resp |-> FALSE, status |-> 0, body |-> BodyEmpty, readErr |-> ""]

(***************************************************************************)
(* aidboxclient: License, LicenseResponse, APIResponse.                    *)
(***************************************************************************)
StrKeys ==
  {"id", "name", "product", "type", "expiration", "status", "creator.id",
   "creator.resourceType", "project.id", "project.resourceType", "created",
   "meta.lastUpdated", "meta.createdAt", "meta.versionId", "issuer", "info.hosting"}
IntKeys == {"max-instances", "additional.expiration-days"}
BoolKeys == {"offline"}
PtrKeys == {"additional.box-url"}
LicenseKeys == StrKeys \cup IntKeys \cup BoolKeys \cup PtrKeys

\* the zero value of the Go struct License, indexed by the yaml tag of each field
License ==
  [k \in LicenseKeys |->
     IF k \in IntKeys THEN IntV(0, "0")
     ELSE IF k \in BoolKeys THEN BoolV(FALSE, "false")
     ELSE StrV("")]

LicenseResponse == [License |-> License, JWT |-> ""]

\* error values: the message prefix and what fmt.Errorf formats into it
NoErr == [msg |-> "", cause |-> "", status |-> "", body |-> ""]
Errorf(msg, cause, status, body) ==
  [msg |-> msg, cause |-> cause, status |-> status, body |-> body]

\* yaml.Unmarshal(bodyBytes, &apiResp): the error ("" is nil) and apiResp.Result
yamlTypeError(b) ==
  \/ \E k \in DOMAIN b.top : k = "result" /\ b.top[k] # "mapping"
  \/ \E k \in DOMAIN b.lic \cap IntKeys : b.lic[k].t # "int"
  \/ \E k \in DOMAIN b.lic \cap BoolKeys : b.lic[k].t # "bool"

yamlUnmarshal(b) ==
  CASE b.form = "empty" -> [err |-> "", Result |-> LicenseResponse]
    [] b.form = "scalar" ->
         [err |-> "yaml: unmarshal errors: cannot unmarshal !!str into APIResponse",
          Result |-> LicenseResponse]
    [] b.form = "broken" ->
         [err |-> "yaml: did not find expected node content", Result |-> LicenseResponse]
    [] OTHER ->
         IF yamlTypeError(b)
         THEN [err |-> "yaml: unmarshal errors", Result |-> LicenseResponse]
         ELSE [err |-> "",
               Result |->
                 [License |-> [k \in LicenseKeys |->
                                 IF k \in DOMAIN b.lic
                                 THEN (IF k \in StrKeys \cup PtrKeys
                                       THEN StrV(b.lic[k].s) ELSE b.lic[k])
                                 ELSE License[k]],
                  JWT |-> b.jwt]]

\* parseYAMLResponse leaving the JWT out of what it returns
parseYAMLResponseNoJWT(bodyBytes) ==
  LET u == yamlUnmarshal(bodyBytes)
  IN IF u.err # ""
     THEN [res |-> LicenseResponse,
           err |-> Errorf("failed to parse YAML response", u.err, "", "")]
     ELSE [res |-> [u.Result EXCEPT !.JWT = ""], err |-> NoErr]

parseYAMLResponse(bodyBytes) ==
  LET u == yamlUnmarshal(bodyBytes)
  IN IF u.err # ""
     THEN [res |-> LicenseResponse,
           err |-> Errorf("failed to parse YAML response", u.err, "", "")]
     ELSE [res |-> u.Result, err |-> NoErr]

(***************************************************************************)
(* AidboxHTTPClient.  The client is its Endpoint and Token; http.NewRequest *)
(* fails on an endpoint that does not parse as a URL.                      *)
(***************************************************************************)
DefaultEndpoint == "https://aidbox.app/rpc"
Endpoints == {DefaultEndpoint, "http://local host"}
Tokens == {"tok-1"}

UrlParses(e) == e # "http://local host" /\ e # "http://local host/rpc"

NewClient(endpoint, token) == [Endpoint |-> endpoint, Token |-> token]

Request(url, method, params) ==
  [verb |-> "POST", url |-> url, contentType |-> "text/yaml", accept |-> "text/yaml",
   method |-> method, params |-> params]

IssueParams(token, name, product, type) ==
  [k \in {"token", "name", "product", "type"} |->
     CASE k = "token" -> token
       [] k = "name" -> name
       [] k = "product" -> product
       [] OTHER -> type]

IdParams(token, id) ==
  [k \in {"token", "id"} |-> IF k = "token" THEN token ELSE id]

\* makeAPICall without its check of the status code
makeAPICallAnyStatus(c, method, params, x) ==
  LET req == Request(c.Endpoint, method, params)
  IN IF ~UrlParses(c.Endpoint)
     THEN [reqs |-> <<>>, panic |-> FALSE, ok |-> FALSE,
           err |-> Errorf("failed to create HTTP request", "parse: invalid URL", "", "")]
     ELSE IF x.err # ""
     THEN (IF ~x.resp
           THEN [reqs |-> <<req>>, panic |-> TRUE, ok |-> FALSE, err |-> NoErr]
           ELSE [reqs |-> <<req>>, panic |-> FALSE, ok |-> FALSE,
                 err |-> Errorf("API call failed", x.err, "", "")])
     ELSE IF x.readErr # ""
     THEN [reqs |-> <<req>>, panic |-> FALSE, ok |-> FALSE,
           err |-> Errorf("failed to read response body", x.readErr, "", "")]
     ELSE [reqs |-> <<req>>, panic |-> FALSE, ok |-> TRUE, err |-> NoErr]

\* makeAPICall: the requests handed to Client.Do, whether the call panicked,
\* and the returned (bodyBytes, err); ok says bodyBytes is the body read
makeAPICall(c, method, params, x) ==
  LET req == Request(c.Endpoint, method, params)
  IN IF ~UrlParses(c.Endpoint)
     THEN [reqs |-> <<>>, panic |-> FALSE, ok |-> FALSE,
           err |-> Errorf("failed to create HTTP request", "parse: invalid URL", "", "")]
     ELSE IF x.err # ""
     THEN (IF ~x.resp
           \* resp is nil: evaluating resp.StatusCode is a nil pointer dereference
           THEN [reqs |-> <<req>>, panic |-> TRUE, ok |-> FALSE, err |-> NoErr]
           ELSE [reqs |-> <<req>>, panic |-> FALSE, ok |-> FALSE,
                 err |-> Errorf("API call failed", x.err, "", "")])
     ELSE IF x.readErr # ""
     THEN [reqs |-> <<req>>, panic |-> FALSE, ok |-> FALSE,
           err |-> Errorf("failed to read response body", x.readErr, "", "")]
     ELSE IF x.status # 200
     THEN [reqs |-> <<req>>, panic |-> FALSE, ok |-> FALSE,
           err |-> Errorf("API response error", "", StatusText(x.status), x.body.raw)]
     ELSE [reqs |-> <<req>>, panic |-> FALSE, ok |-> TRUE, err |-> NoErr]

\* what a client operation leaves behind: requests sent, panic, result, error
Outcome(call, res, err) ==
  [reqs |-> call.reqs, panic |-> call.panic, res |-> res, err |-> err]

CreateLicense(c, name, product, licenseType, x) ==
  LET call == makeAPICall(c, "portal.portal/issue-license",
                          IssueParams(c.Token, name, product, licenseType), x)
  IN IF call.panic \/ call.err # NoErr
     THEN Outcome(call, LicenseResponse, call.err)
     ELSE LET p == parseYAMLResponse(x.body) IN Outcome(call, p.res, p.err)

GetLicense(c, licenseID, x) ==
  LET call == makeAPICall(c, "portal.portal/get-license", IdParams(c.Token, licenseID), x)
  IN IF call.panic \/ call.err # NoErr
     THEN Outcome(call, LicenseResponse, call.err)
     ELSE LET p == parseYAMLResponse(x.body) IN Outcome(call, p.res, p.err)

\* DeleteLicense sending the method of GetLicense
DeleteLicenseAsGet(c, licenseID, x) ==
  LET call == makeAPICall(c, "portal.portal/get-license", IdParams(c.Token, licenseID), x)
  IN Outcome(call, LicenseResponse, call.err)

DeleteLicense(c, licenseID, x) ==
  LET call == makeAPICall(c, "portal.portal/remove-license", IdParams(c.Token, licenseID), x)
  IN Outcome(call, LicenseResponse, call.err)

\* the first draft of CreateLicense, which does the HTTP exchange itself
CreateLicenseDraft1(c, name, product, licenseType, x) ==
  LET req == Request(c.Endpoint, "portal.portal/issue-license",
                     IssueParams(c.Token, name, product, licenseType))
      sent == [reqs |-> <<req>>, panic |-> FALSE]
      u == yamlUnmarshal(x.body)
  IN IF ~UrlParses(c.Endpoint)
     THEN Outcome([reqs |-> <<>>, panic |-> FALSE], LicenseResponse,
                  Errorf("failed to create HTTP request", "parse: invalid URL", "", ""))
     ELSE IF x.err # ""
     THEN Outcome(sent, LicenseResponse, Errorf("API call failed", x.err, "", ""))
     ELSE IF x.readErr # ""
     THEN Outcome(sent, LicenseResponse,
                  Errorf("failed to read response body", x.readErr, "", ""))
     ELSE IF x.status # 200
     THEN Outcome(sent, LicenseResponse,
                  Errorf("API response error", "", StatusText(x.status), x.body.raw))
     ELSE IF u.err # ""
     THEN Outcome(sent, LicenseResponse,
                  Errorf("failed to parse YAML response", u.err, "", x.body.raw))
     ELSE Outcome(sent, u.Result, NoErr)


(***************************************************************************)
(* The license resource.  Plans and states are objects over the schema's   *)
(* attributes; a value is null, unknown or known.                          *)
(***************************************************************************)
Null == [st |-> "null", v |-> ""]
Unknown == [st |-> "unknown", v |-> ""]
Known(s) == [st |-> "known", v |-> s]

\* basetypes.StringValue.String()
StringOf(x) ==
  IF x.st = "null" THEN "<null>"
  ELSE IF x.st = "unknown" THEN "<unknown>"
  ELSE "\"" \o x.v \o "\""

\* LicenseResource.Schema: the attributes (the same in both drafts)
SchemaAttrs ==
  {"id", "name", "product", "type", "expiration", "status", "max_instances",
   "creator_id", "project_id", "offline", "created", "meta_last_updated",
   "meta_created_at", "meta_version_id", "issuer", "info_hosting", "jwt"}

\* LicenseResourceModel: the tfsdk tags of its fields, per draft
ModelFields(d) == IF d = 1 THEN SchemaAttrs \cup {"additional"} ELSE SchemaAttrs

\* the Go field names of LicenseResourceModel as encoding/json matches them
\* (case-insensitively) against the keys of a JSON object
JsonFieldKeys ==
  {"id", "name", "product", "type", "expiration", "status", "maxinstances",
   "creatorid", "projectid", "offline", "created", "metalastupdated",
   "metacreatedat", "metaversionid", "issuer", "infohosting", "jwt"}

NoState == [a \in {} |-> Null]
NoPlan == [a \in {} |-> Null]

\* Plan.Get / State.Get into a LicenseResourceModel: the framework refuses an
\* object whose attributes are not exactly the struct's tagged fields
Get(obj, d) ==
  IF DOMAIN obj = ModelFields(d)
  THEN [ok |-> TRUE, data |-> obj]
  ELSE [ok |-> FALSE, data |-> obj]

\* State.Set from a LicenseResourceModel
Set(data) ==
  IF DOMAIN data = SchemaAttrs
  THEN [ok |-> TRUE, state |-> [a \in SchemaAttrs |-> data[a]]]
  ELSE [ok |-> FALSE, state |-> NoState]

ConversionError == Errorf("Value Conversion Error", "mismatch between struct and object", "", "")

\* json.Unmarshal(bodyBytes, &data): the error ("" is nil).  No field of the
\* model can be filled from JSON: a types value is a struct without exported
\* fields and without an UnmarshalJSON, so a scalar under a key that matches a
\* field is a type error, an object under it is accepted and dropped, and a
\* key that matches no field is skipped.
jsonUnmarshal(b) ==
  IF b.form = "empty" THEN "unexpected end of JSON input"
  ELSE IF b.form # "json" THEN "invalid character looking for beginning of value"
  ELSE IF \E k \in DOMAIN b.top \cap JsonFieldKeys : b.top[k] = "scalar"
  THEN "json: cannot unmarshal string into Go struct field of type basetypes.StringValue"
  ELSE ""

\* the resource's fields set by Configure
Resource(endpoint, token) == [client |-> TRUE, endpoint |-> endpoint, token |-> token]

\* what a handler leaves behind
Handled(diags, reqs, state, setCalled, panic) ==
  [diags |-> diags, reqs |-> reqs, state |-> state, setCalled |-> setCalled, panic |-> panic,
   id |-> ""]

\* Create leaving the product as planned
keepProduct(data) == data

\* "Manually set default values if not provided"
defaultProduct(data) ==
  IF data["product"].st \in {"null", "unknown"}
  THEN [data EXCEPT !["product"] = Known("aidbox")]
  ELSE data

\* Create, second draft, from the request body to the decoded response:
\* the requests sent, the diagnostic of the failure (NoErr when none), the model
exchangeCreate(r, data0, x) ==
  LET data == defaultProduct(data0)
      url == r.endpoint \o "/rpc"
      req == Request(url, "portal.portal/issue-license",
                     IssueParams(r.token, StringOf(data["name"]),
                                 StringOf(data["product"]), StringOf(data["type"])))
      jerr == jsonUnmarshal(x.body)
  IN IF ~UrlParses(url)
     THEN [reqs |-> <<>>, panic |-> FALSE, data |-> data,
           diag |-> Errorf("Failed to create HTTP request", "parse: invalid URL", "", "")]
     ELSE IF ~r.client
     THEN [reqs |-> <<>>, panic |-> TRUE, data |-> data, diag |-> NoErr]
     ELSE IF x.err # ""
     THEN [reqs |-> <<req>>, panic |-> FALSE, data |-> data,
           diag |-> Errorf("API Call Failed", x.err, "", "")]
     ELSE IF x.readErr # ""
     THEN [reqs |-> <<req>>, panic |-> FALSE, data |-> data,
           diag |-> Errorf("Failed to read response body", x.readErr, "", "")]
     ELSE IF x.body.raw = ""
     THEN [reqs |-> <<req>>, panic |-> FALSE, data |-> data,
           diag |-> Errorf("Empty Response", "", "", "")]
     ELSE IF jerr # ""
     THEN [reqs |-> <<req>>, panic |-> FALSE, data |-> data,
           diag |-> Errorf("Failed to parse response body", jerr, "", x.body.raw)]
     ELSE [reqs |-> <<req>>, panic |-> FALSE, diag |-> NoErr,
           data |-> IF StringOf(data["id"]) = ""
                    THEN [data EXCEPT !["id"] = Known("extracted-id-from-response")]
                    ELSE data]

\* Create falling through to State.Set after a failed exchange
CreateNoReturn(r, plan, x) ==
  LET g == Get(plan, 2)
      e == exchangeCreate(r, g.data, x)
      s == Set(e.data)
  IN IF ~g.ok THEN Handled(<<ConversionError>>, <<>>, NoState, FALSE, FALSE)
     ELSE IF e.panic THEN Handled(<<>>, e.reqs, NoState, FALSE, TRUE)
     ELSE IF e.diag # NoErr THEN Handled(<<e.diag>>, e.reqs, s.state, TRUE, FALSE)
     ELSE Handled(<<>>, e.reqs, s.state, TRUE, FALSE)

\* Create sending its request a second time after a failure
CreateRetry(r, plan, x) ==
  LET g == Get(plan, 2)
      e == exchangeCreate(r, g.data, x)
      s == Set(e.data)
  IN IF ~g.ok THEN Handled(<<ConversionError>>, <<>>, NoState, FALSE, FALSE)
     ELSE IF e.panic THEN Handled(<<>>, e.reqs, NoState, FALSE, TRUE)
     ELSE IF e.diag # NoErr THEN Handled(<<e.diag>>, e.reqs \o e.reqs, NoState, FALSE, FALSE)
     ELSE IF ~s.ok THEN Handled(<<ConversionError>>, e.reqs, NoState, TRUE, FALSE)
     ELSE Handled(<<>>, e.reqs, s.state, TRUE, FALSE)

\* LicenseResource.Create, second draft
Create(r, plan, x) ==
  LET g == Get(plan, 2)
      e == exchangeCreate(r, g.data, x)
      s == Set(e.data)
  IN IF ~g.ok THEN Handled(<<ConversionError>>, <<>>, NoState, FALSE, FALSE)
     ELSE IF e.panic THEN Handled(<<>>, e.reqs, NoState, FALSE, TRUE)
     ELSE IF e.diag # NoErr THEN Handled(<<e.diag>>, e.reqs, NoState, FALSE, FALSE)
     ELSE IF ~s.ok THEN Handled(<<ConversionError>>, e.reqs, NoState, TRUE, FALSE)
     ELSE Handled(<<>>, e.reqs, s.state, TRUE, FALSE)

\* LicenseResource.Create, first draft
CreateDraft1(plan) ==
  LET g == Get(plan, 1)
      data == [g.data EXCEPT !["id"] = Known("example-id")]
      s == Set(data)
  IN IF ~g.ok THEN Handled(<<ConversionError>>, <<>>, NoState, FALSE, FALSE)
     ELSE IF ~s.ok THEN Handled(<<ConversionError>>, <<>>, NoState, TRUE, FALSE)
     ELSE Handled(<<>>, <<>>, s.state, TRUE, FALSE)

\* Read persisting a state whose jwt it cannot re-derive
ReadDropsJWT(prior, d) ==
  LET g == Get(prior, d)
      s == Set([g.data EXCEPT !["jwt"] = Null])
  IN IF ~g.ok THEN Handled(<<ConversionError>>, <<>>, prior, FALSE, FALSE)
     ELSE Handled(<<>>, <<>>, s.state, TRUE, FALSE)

\* LicenseResource.Read (both drafts): the response state starts as the prior state
Read(prior, d) ==
  LET g == Get(prior, d)
      s == Set(g.data)
  IN IF ~g.ok THEN Handled(<<ConversionError>>, <<>>, prior, FALSE, FALSE)
     ELSE IF ~s.ok THEN Handled(<<ConversionError>>, <<>>, prior, TRUE, FALSE)
     ELSE Handled(<<>>, <<>>, s.state, TRUE, FALSE)

\* LicenseResource.Update (both drafts)
Update(prior, plan, d) ==
  LET g == Get(plan, d)
      s == Set(g.data)
  IN IF ~g.ok THEN Handled(<<ConversionError>>, <<>>, prior, FALSE, FALSE)
     ELSE IF ~s.ok THEN Handled(<<ConversionError>>, <<>>, prior, TRUE, FALSE)
     ELSE Handled(<<>>, <<>>, s.state, TRUE, FALSE)

\* LicenseResource.Delete (both drafts): the framework drops the state when the
\* handler reports no error
Delete(prior, d) ==
  LET g == Get(prior, d)
  IN IF ~g.ok THEN Handled(<<ConversionError>>, <<>>, prior, FALSE, FALSE)
     ELSE Handled(<<>>, <<>>, NoState, FALSE, FALSE)

\* the identifiers handed to ImportState, the empty one among them
ImportIds == Ids \cup {""}

\* ImportState writing the identifier to the name as well
ImportStateSetsName(id) ==
  [Handled(<<>>, <<>>,
           [a \in SchemaAttrs |-> IF a \in {"id", "name"} THEN Known(id) ELSE Null],
           FALSE, FALSE) EXCEPT !.id = id]

\* LicenseResource.ImportState: resource.ImportStatePassthroughID on path id;
\* the record's id is req.ID
ImportState(id) ==
  [Handled(<<>>, <<>>, [a \in SchemaAttrs |-> IF a = "id" THEN Known(id) ELSE Null],
           FALSE, FALSE) EXCEPT !.id = id]


(***************************************************************************)
(* Provider configuration.  A configuration is the endpoint and token      *)
(* attributes (null, unknown or known) and whether req.Config.Get decodes  *)
(* it; env is the value of AIDBOX_TOKEN ("" when unset).  The data a       *)
(* provider hands to its resources is nil, a *ProviderData or an           *)
(* *http.Client.                                                           *)
(***************************************************************************)
EnvTokens == {"", "env-tok"}

ProviderConfigs ==
  [ok : BOOLEAN,
   Endpoint : {Null, Unknown, Known("")} \cup {Known(e) : e \in Endpoints},
   Token : {Null, Unknown, Known("")} \cup {Known(t) : t \in Tokens}]

NoConfig == [ok |-> TRUE, Endpoint |-> Null, Token |-> Null]

NilData == [type |-> "nil", Endpoint |-> "", Token |-> "", Client |-> FALSE]
ProviderData(endpoint, token) ==
  [type |-> "*ProviderData", Endpoint |-> endpoint, Token |-> token, Client |-> TRUE]
HTTPClientData == [type |-> "*http.Client", Endpoint |-> "", Token |-> "", Client |-> TRUE]

NoClient == NewClient("", "")

\* what a provider's Configure leaves: its diagnostics, resp.ResourceData, the
\* resolved endpoint and token, and the RPC client it built
Configured(diags, data, endpoint, token, client) ==
  [diags |-> diags, ResourceData |-> data, Endpoint |-> endpoint, Token |-> token,
   client |-> client]

NoConfigured == Configured(<<>>, NilData, "", "", NoClient)

\* the endpoint after "Set default endpoint if not provided"
resolveEndpoint(config) ==
  IF config.Endpoint.st \in {"null", "unknown"} \/ config.Endpoint.v = ""
  THEN DefaultEndpoint
  ELSE config.Endpoint.v

\* the token after "Handle token; get from environment variable if not
\* provided": "" stands for the error branch
resolveToken(config, env) ==
  IF config.Token.st \in {"null", "unknown"} \/ config.Token.v = ""
  THEN env
  ELSE config.Token.v

DecodeError == Errorf("Value Conversion Error", "config does not decode", "", "")
NoTokenError ==
  Errorf("No Token Provided",
         "Please provide a 'token' in the provider configuration or through the 'AIDBOX_TOKEN' environment variable.",
         "", "")

\* AidboxProvider.Configure handing out provider data after the token error
AidboxProviderConfigureNoReturn(config, env) ==
  LET e == resolveEndpoint(config)
      t == resolveToken(config, env)
  IN IF ~config.ok THEN Configured(<<DecodeError>>, NilData, "", "", NoClient)
     ELSE Configured(IF t = "" THEN <<NoTokenError>> ELSE <<>>,
                     ProviderData(e, t), e, t, NewClient(e, t))

\* AidboxProvider.Configure
AidboxProviderConfigure(config, env) ==
  LET e == resolveEndpoint(config)
      t == resolveToken(config, env)
  IN IF ~config.ok THEN Configured(<<DecodeError>>, NilData, "", "", NoClient)
     ELSE IF t = "" THEN Configured(<<NoTokenError>>, NilData, e, "", NoClient)
     ELSE Configured(<<>>, ProviderData(e, t), e, t, NewClient(e, t))

\* ScaffoldingProvider.Configure
ScaffoldingProviderConfigure(config, env) ==
  LET e == resolveEndpoint(config)
      t == resolveToken(config, env)
  IN IF ~config.ok THEN Configured(<<DecodeError>>, NilData, "", "", NoClient)
     ELSE IF t = "" THEN Configured(<<NoTokenError>>, NilData, e, "", NoClient)
     ELSE Configured(<<>>, HTTPClientData, e, t, NoClient)

ProviderKinds == {"AidboxProvider", "ScaffoldingProvider"}

ProviderConfigure(kind, config, env) ==
  IF kind = "AidboxProvider"
  THEN AidboxProviderConfigure(config, env)
  ELSE ScaffoldingProviderConfigure(config, env)

\* NewLicenseResource: no field is set
NewLicenseResource == [client |-> FALSE, endpoint |-> "", token |-> ""]

\* the type each draft of LicenseResource.Configure asserts of req.ProviderData
ExpectedType(d) == IF d = 1 THEN "*http.Client" ELSE "*ProviderData"

UnexpectedType ==
  Errorf("Unexpected Resource Configure Type", "Expected " \o "another type", "", "")

\* LicenseResource.Configure assigning without the type assertion's ok check
LicenseResourceConfigureUnchecked(res, pd, d) ==
  IF pd.type = "nil" THEN [r |-> res, diags |-> <<>>]
  ELSE IF d = 1 THEN [r |-> [res EXCEPT !.client = pd.Client], diags |-> <<>>]
  ELSE [r |-> [client |-> pd.Client, endpoint |-> pd.Endpoint, token |-> pd.Token],
        diags |-> <<>>]

\* LicenseResource.Configure (both drafts): the resource's fields and the diagnostics
LicenseResourceConfigure(res, pd, d) ==
  IF pd.type = "nil" THEN [r |-> res, diags |-> <<>>]
  ELSE IF pd.type # ExpectedType(d) THEN [r |-> res, diags |-> <<UnexpectedType>>]
  ELSE IF d = 1 THEN [r |-> [res EXCEPT !.client = pd.Client], diags |-> <<>>]
  ELSE [r |-> Resource(pd.Endpoint, pd.Token), diags |-> <<>>]

\* the provider each draft of the resource is written against
ProviderOf(d) == IF d = 1 THEN "ScaffoldingProvider" ELSE "AidboxProvider"

(***************************************************************************)
(* State.  c is the RPC client and r the configured resource; draft says   *)
(* which draft of the resource is built.  state is the persisted state of  *)
(* the one resource instance and origin the handler that brought it into   *)
(* being.  op, args, plan, exch are the last operation and its inputs (the *)
(* exchange is recorded only when a request was sent); out is what a       *)
(* client operation returned and done what a lifecycle handler left.       *)
(* provider is the provider that is built, cfg and env its configuration   *)
(* and the AIDBOX_TOKEN variable, pdone what its Configure left, and stage *)
(* how far configuration has come: "new", "provider-ok",                   *)
(* "provider-failed", "resource-failed" or "ready".                        *)
(***************************************************************************)
VARIABLES c, r, draft, state, origin, op, args, plan, exch, out, done,
          provider, cfg, env, pdone, stage

vars == <<c, r, draft, state, origin, op, args, plan, exch, out, done,
          provider, cfg, env, pdone, stage>>

NoArgs == [name |-> "", product |-> "", type |-> "", id |-> ""]
NoOutcome == Outcome([reqs |-> <<>>, panic |-> FALSE], LicenseResponse, NoErr)
NoHandled == Handled(<<>>, <<>>, NoState, FALSE, FALSE)

\* the planned objects handed to Create and Update
Plans ==
  {[a \in SchemaAttrs |->
      CASE a = "name" -> Known(n)
        [] a = "type" -> Known(t)
        [] a = "product" -> p
        [] a = "id" -> i
        [] OTHER -> Unknown] :
     n \in Names, t \in LicenseTypes, p \in {Null, Unknown, Known("fhirbase")},
     i \in {Unknown, Known(AllIds[1])}}

Quiet ==
  /\ state = NoState /\ origin = "none" /\ op = "none" /\ args = NoArgs
  /\ plan = NoPlan /\ exch = NoExchange /\ out = NoOutcome /\ done = NoHandled

\* the configurations the lifecycle and the client are run under: every
\* endpoint, the default one by leaving the attribute out
InitConfigs ==
  {[ok |-> TRUE, Endpoint |-> e, Token |-> Known(t)] :
     e \in {Null} \cup {Known(x) : x \in Endpoints \ {DefaultEndpoint}}, t \in Tokens}

\* the state after the provider's Configure and then the resource's Configure
Started(kind, d, config, e) ==
  LET p == ProviderConfigure(kind, config, e)
      q == LicenseResourceConfigure(NewLicenseResource, p.ResourceData, d)
  IN /\ provider = kind /\ draft = d /\ cfg = config /\ env = e
     /\ pdone = p /\ c = p.client /\ r = q.r
     /\ stage = "ready"

Init ==
  /\ \E d \in {1, 2}, config \in InitConfigs : Started(ProviderOf(d), d, config, "")
  /\ Quiet

ClientInit ==
  /\ \E config \in InitConfigs : Started("AidboxProvider", 2, config, "")
  /\ Quiet

\* before any Configure: the provider and the resource as their constructors
\* leave them
ConfigInit ==
  /\ provider \in ProviderKinds /\ draft \in {1, 2}
  /\ cfg = NoConfig /\ env = "" /\ pdone = NoConfigured
  /\ c = NoClient /\ r = NewLicenseResource
  /\ stage = "new"
  /\ Quiet

(***************************************************************************)
(* Configuration: the provider's Configure runs once; the resource's       *)
(* Configure runs with whatever provider data there is, nil before the     *)
(* provider is configured.                                                 *)
(***************************************************************************)
DoProviderConfigure ==
  /\ stage = "new"
  /\ \E config \in ProviderConfigs, e \in EnvTokens :
       LET p == ProviderConfigure(provider, config, e)
       IN /\ cfg' = config /\ env' = e
          /\ pdone' = p
          /\ c' = p.client
          /\ stage' = IF p.diags = <<>> THEN "provider-ok" ELSE "provider-failed"
  /\ op' = "ProviderConfigure"
  /\ UNCHANGED <<r, draft, state, origin, args, plan, exch, out, done, provider>>

DoConfigure ==
  /\ stage \in {"new", "provider-ok"}
  /\ LET q == LicenseResourceConfigure(r, pdone.ResourceData, draft)
     IN /\ r' = q.r
        /\ done' = Handled(q.diags, <<>>, NoState, FALSE, FALSE)
        /\ stage' = IF pdone.ResourceData = NilData THEN stage
                    ELSE IF q.diags = <<>> THEN "ready"
                    ELSE "resource-failed"
  /\ op' = "Configure"
  /\ UNCHANGED <<c, draft, state, origin, args, plan, exch, out,
                 provider, cfg, env, pdone>>

ConfigNext ==
  \/ DoProviderConfigure
  \/ DoConfigure

ConfigSpec == ConfigInit /\ [][ConfigNext]_vars

(***************************************************************************)
(* The client's operations.                                                *)
(***************************************************************************)
Returned(name, a, x, o) ==
  /\ op' = name
  /\ args' = a
  /\ exch' = IF o.reqs = <<>> THEN NoExchange ELSE x
  /\ out' = o
  /\ UNCHANGED <<c, r, draft, state, origin, plan, done,
                 provider, cfg, env, pdone, stage>>

CallCreateLicense ==
  \E n \in Names, p \in Products, t \in LicenseTypes, x \in Exchanges \cup EchoExchanges :
    Returned("CreateLicense", [name |-> n, product |-> p, type |-> t, id |-> ""], x,
             CreateLicense(c, n, p, t, x))

CallCreateLicenseDraft1 ==
  \E n \in Names, p \in Products, t \in LicenseTypes, x \in Exchanges \cup EchoExchanges :
    Returned("CreateLicenseDraft1", [name |-> n, product |-> p, type |-> t, id |-> ""], x,
             CreateLicenseDraft1(c, n, p, t, x))

CallGetLicense ==
  \E i \in Ids, x \in Exchanges :
    Returned("GetLicense", [NoArgs EXCEPT !.id = i], x, GetLicense(c, i, x))

CallDeleteLicense ==
  \E i \in Ids, x \in Exchanges :
    Returned("DeleteLicense", [NoArgs EXCEPT !.id = i], x, DeleteLicense(c, i, x))

ClientNext ==
  \/ CallCreateLicense
  \/ CallCreateLicenseDraft1
  \/ CallGetLicense
  \/ CallDeleteLicense

ClientSpec == ClientInit /\ [][ClientNext]_vars

(***************************************************************************)
(* The lifecycle handlers, as the framework invokes them: Create and       *)
(* ImportState on an instance that has no state, the others on one that    *)
(* has, and only once configuration is through.  A handler that panics     *)
(* ends the provider process.                                              *)
(***************************************************************************)
Finished(name, p, x, h, o) ==
  /\ op' = name
  /\ plan' = p
  /\ exch' = IF h.reqs = <<>> THEN NoExchange ELSE x
  /\ done' = h
  /\ state' = h.state
  /\ origin' = IF h.state = NoState THEN "none" ELSE o
  /\ args' = [NoArgs EXCEPT !.id = IF name = "ImportState" THEN h.id ELSE ""]
  /\ UNCHANGED <<c, r, draft, out, provider, cfg, env, pdone, stage>>

Alive == stage = "ready" /\ ~done.panic

DoCreate ==
  /\ Alive /\ state = NoState
  /\ \E p \in Plans, x \in Exchanges :
       Finished("Create", p, x,
                IF draft = 1 THEN CreateDraft1(p) ELSE Create(r, p, x), "create")

DoRead ==
  /\ Alive /\ state # NoState
  /\ Finished("Read", NoPlan, NoExchange, Read(state, draft), origin)

DoUpdate ==
  /\ Alive /\ state # NoState
  /\ \E p \in Plans : Finished("Update", p, NoExchange, Update(state, p, draft), origin)

DoDelete ==
  /\ Alive /\ state # NoState
  /\ Finished("Delete", NoPlan, NoExchange, Delete(state, draft), origin)

DoImportState ==
  /\ Alive /\ state = NoState
  /\ \E i \in ImportIds :
       Finished("ImportState", NoPlan, NoExchange, ImportState(i), "import")

Next ==
  \/ DoCreate
  \/ DoRead
  \/ DoUpdate
  \/ DoDelete
  \/ DoImportState

Spec == Init /\ [][Next]_vars


(***************************************************************************)
(* Properties of the client (checked under ClientSpec).                    *)
(***************************************************************************)
ClientOps == {"CreateLicense", "CreateLicenseDraft1", "GetLicense", "DeleteLicense"}

\* a response arrived whole: Do returned no error and the body was read
Received == exch.resp /\ exch.err = "" /\ exch.readErr = ""

\* C1: a response whose status is not 200, whatever its body, makes each client
\* operation return an error that carries the status text and the raw body,
\* together with the zero LicenseResponse
C1_NonOKIsError ==
  (op \in ClientOps /\ Received /\ exch.status # 200) =>
     /\ ~out.panic
     /\ out.err # NoErr
     /\ out.err.status = StatusText(exch.status)
     /\ out.err.body = exch.body.raw
     /\ out.res = LicenseResponse

C1_Witness ==
  /\ op = "GetLicense"
  /\ Received /\ exch.status = 500
  /\ exch.body = BodyYAML("lic-1", "acme", "aidbox", "standard")
  /\ out.err.msg = "API response error"
  /\ out.err.status = "500 Internal Server Error"
  /\ out.res = LicenseResponse

\* C3: when the transport returns an error and no response, each client
\* operation returns an error wrapping the transport's cause, without a crash
\* and without a result
C3_TransportErrorReturned ==
  (op \in ClientOps /\ exch.err # "" /\ ~exch.resp) =>
     /\ ~out.panic
     /\ out.err # NoErr
     /\ out.err.cause = exch.err
     /\ out.res = LicenseResponse

\* the body is a mapping with a well-typed result.license
HasEnvelope(b) ==
  /\ b.form \in {"yaml", "json"}
  /\ "result" \in DOMAIN b.top
  /\ DOMAIN b.lic # {}
  /\ ~yamlTypeError(b)

\* C4: a 200 response whose body lacks the envelope shape makes CreateLicense
\* and GetLicense return an error, never an empty LicenseResponse with a nil error
C4_MalformedOKIsError ==
  (/\ op \in {"CreateLicense", "CreateLicenseDraft1", "GetLicense"}
   /\ Received /\ exch.status = 200
   /\ ~HasEnvelope(exch.body)) =>
     out.err # NoErr

\* the one request an operation is specified to send
RequestAsSpecified(q) ==
  /\ q.verb = "POST"
  /\ q.url = c.Endpoint
  /\ IF op = "DeleteLicense"
     THEN /\ q.method = "portal.portal/remove-license"
          /\ DOMAIN q.params = {"token", "id"}
          /\ q.params["token"] = c.Token /\ q.params["id"] = args.id
     ELSE IF op = "GetLicense"
     THEN /\ q.method = "portal.portal/get-license"
          /\ DOMAIN q.params = {"token", "id"}
          /\ q.params["token"] = c.Token /\ q.params["id"] = args.id
     ELSE /\ q.method = "portal.portal/issue-license"
          /\ DOMAIN q.params = {"token", "name", "product", "type"}
          /\ q.params["token"] = c.Token /\ q.params["name"] = args.name
          /\ q.params["product"] = args.product /\ q.params["type"] = args.type

\* C8 as stated: every invocation of a client operation sends exactly one POST
\* with the operation's method and parameters
C8_ExactlyOneRequest ==
  op \in ClientOps => (Len(out.reqs) = 1 /\ RequestAsSpecified(out.reqs[1]))

\* C8 as amended: an invocation sends at most one POST, exactly one when the
\* endpoint parses as a URL and none when it does not, and the request sent has
\* the operation's method and exactly its parameters
C8_OneRequestWhenBuilt ==
  op \in ClientOps =>
     /\ Len(out.reqs) <= 1
     /\ (Len(out.reqs) = 1) <=> UrlParses(c.Endpoint)
     /\ (Len(out.reqs) = 1 => RequestAsSpecified(out.reqs[1]))
     /\ (Len(out.reqs) = 0 => out.err.msg = "failed to create HTTP request")

C8_Witness ==
  /\ op = "DeleteLicense" /\ args.id = "lic-1"
  /\ Len(out.reqs) = 1
  /\ out.reqs[1].method = "portal.portal/remove-license"
  /\ out.reqs[1].params["id"] = "lic-1"
  /\ out.err = NoErr

(***************************************************************************)
(* Properties of the lifecycle handlers (checked under Spec).              *)
(***************************************************************************)
\* C2: a non-200 response to Create's call ends in an error diagnostic and no
\* State.Set; for HTTP 500 with body "internal error" the diagnostic carries
\* both the status and the body
C2_NonOKReported ==
  (op = "Create" /\ Received /\ exch.status # 200) =>
     /\ done.diags # <<>>
     /\ ~done.setCalled
     /\ state = NoState
     /\ (exch.status = 500 /\ exch.body = BodyText) =>
          /\ done.diags[1].status = "500 Internal Server Error"
          /\ done.diags[1].body = "internal error"

\* C5: a Create that reports an error diagnostic has not called State.Set and
\* leaves no state
C5_CreateAllOrNothing ==
  (op = "Create" /\ done.diags # <<>>) => (~done.setCalled /\ state = NoState)

C5_Witness ==
  /\ op = "Create" /\ draft = 2
  /\ Received /\ exch.status = 200
  /\ Len(done.diags) = 1
  /\ done.diags[1].msg = "Failed to parse response body"
  /\ ~done.setCalled /\ state = NoState

\* C6: after a successful Create the state holds the id, jwt and maxInstances
\* of the license in the response
C6_StateMirrorsResponse ==
  (/\ op = "Create" /\ done.diags = <<>> /\ done.setCalled
   /\ Received /\ "id" \in DOMAIN exch.body.lic) =>
     /\ state["id"] = Known(exch.body.lic["id"].s)
     /\ state["jwt"] = Known(exch.body.jwt)
     /\ state["max_instances"] = Known(exch.body.lic["maxInstances"].s)

\* C7: a Delete of a created resource sends one remove-license request for the
\* id held in the prior state
C7_DeleteCallsRemove ==
  [][(op' = "Delete" /\ origin = "create" /\ done'.diags = <<>>) =>
       /\ Len(done'.reqs) = 1
       /\ done'.reqs[1].method = "portal.portal/remove-license"
       /\ done'.reqs[1].params["id"] = state["id"].v]_vars

\* C9: Read leaves the persisted state as it was, so reading again changes nothing
C9_ReadIdempotent ==
  [][op' = "Read" => state' = state]_vars

C9_Witness ==
  /\ op = "Read" /\ origin = "create"
  /\ done.setCalled /\ done.diags = <<>>
  /\ state["name"] = Known("acme") /\ state["jwt"] = Unknown

\* C10: once Create has persisted an id, every later Read and Update leaves the
\* persisted id equal to it
C10_IdImmutable ==
  [][(origin = "create" /\ op' \in {"Read", "Update"}) => state'["id"] = state["id"]]_vars


\* the response is a 200 whose license carries the name, product and type of
\* the request q
Echoes(x, q) ==
  /\ x.resp /\ x.err = "" /\ x.readErr = "" /\ x.status = 200
  /\ x.body.form = "yaml" /\ "result" \in DOMAIN x.body.top
  /\ {"name", "product", "type"} \subseteq DOMAIN x.body.lic
  /\ \A k \in {"name", "product", "type"} : x.body.lic[k] = StrV(q.params[k])

\* C12: against an endpoint that echoes the request, issuing a license and
\* decoding the response returns, without error, a License whose name, product
\* and type are the inputs and the jwt of the response
C12_IssueRoundTrip ==
  (/\ op \in {"CreateLicense", "CreateLicenseDraft1"}
   /\ out.reqs # <<>>
   /\ Echoes(exch, out.reqs[1])) =>
     /\ out.err = NoErr /\ ~out.panic
     /\ out.res.License["name"] = StrV(args.name)
     /\ out.res.License["product"] = StrV(args.product)
     /\ out.res.License["type"] = StrV(args.type)
     /\ out.res.JWT = exch.body.jwt

C12_Witness ==
  /\ op = "CreateLicense"
  /\ args = [name |-> "beta", product |-> "fhirbase", type |-> "development", id |-> ""]
  /\ Echoes(exch, out.reqs[1])
  /\ out.res.License["name"] = StrV("beta")
  /\ out.res.License["product"] = StrV("fhirbase")
  /\ out.res.License["type"] = StrV("development")
  /\ out.res.JWT = "abc.def.ghi"

(***************************************************************************)
(* Properties of Update and ImportState (checked under Spec).              *)
(***************************************************************************)
\* C13: Update sends no request and, for every planned configuration, persists
\* exactly that configuration, without a diagnostic
C13_UpdatePersistsPlan ==
  op = "Update" =>
     /\ done.reqs = <<>>
     /\ done.diags = <<>>
     /\ state = plan

\* C14: ImportState accepts any identifier, sends no request and persists a
\* state whose id is the identifier and whose every other attribute is unset
C14_ImportSetsOnlyId ==
  op = "ImportState" =>
     /\ done.reqs = <<>> /\ done.diags = <<>> /\ ~done.panic
     /\ DOMAIN state = SchemaAttrs
     /\ state["id"] = Known(args.id)
     /\ \A a \in SchemaAttrs \ {"id"} : state[a] = Null

C14_Witness ==
  /\ op = "ImportState"
  /\ args.id = AllIds[2]
  /\ state["id"] = Known(AllIds[2])
  /\ state["name"] = Null /\ state["jwt"] = Null
  /\ done.reqs = <<>>

(***************************************************************************)
(* Properties of Create's request (checked under Spec).                    *)
(***************************************************************************)
\* the string a YAML reader takes from a scalar of the request body: a
\* double-quoted scalar is read as what the quotes hold
yamlScalar(text) ==
  IF \E v \in Names \cup Products \cup LicenseTypes : text = "\"" \o v \o "\""
  THEN CHOOSE v \in Names \cup Products \cup LicenseTypes : text = "\"" \o v \o "\""
  ELSE text

\* the product Create is to use for the plan
PlannedProduct ==
  IF plan["product"].st = "known" THEN plan["product"].v ELSE "aidbox"

\* C15: when the plan has no product (null or unknown) the issue-license
\* request Create sends and the state it persists both carry the product
\* "aidbox"; a planned product is sent and persisted unchanged
C15_ProductDefault ==
  /\ (op = "Create" /\ done.reqs # <<>>) =>
        yamlScalar(done.reqs[1].params["product"]) = PlannedProduct
  /\ (op = "Create" /\ done.setCalled /\ done.diags = <<>>) =>
        state["product"] = Known(PlannedProduct)

C15_Witness ==
  /\ op = "Create"
  /\ plan["product"] = Unknown
  /\ done.reqs # <<>>
  /\ done.reqs[1].params["product"] = "\"aidbox\""
  /\ done.setCalled /\ done.diags = <<>>
  /\ state["product"] = Known("aidbox")

\* the lifecycle verbs of the resource
Verbs == {"Create", "Read", "Update", "Delete", "ImportState"}

\* C16: every invocation of a lifecycle verb returns and has sent at most one
\* HTTP request; a request that failed is not sent again
C16_AtMostOneRequest ==
  op \in Verbs =>
     /\ ~done.panic
     /\ Len(done.reqs) <= 1
     /\ op # "Create" => done.reqs = <<>>

C16_Witness ==
  /\ op = "Create"
  /\ exch.err = "dial tcp: connection refused"
  /\ Len(done.reqs) = 1
  /\ done.diags # <<>>
  /\ state = NoState

\* C17: every request a lifecycle verb sends is a POST to exactly the endpoint
\* the provider's Configure resolved, and to no other URL
C17_PostToResolvedEndpoint ==
  (op \in Verbs /\ done.reqs # <<>>) =>
     \A i \in 1..Len(done.reqs) :
        /\ done.reqs[i].verb = "POST"
        /\ done.reqs[i].url = pdone.Endpoint

(***************************************************************************)
(* Properties of configuration (checked under ConfigSpec).                 *)
(***************************************************************************)
\* the provider's Configure has run on a configuration that decodes
ProviderConfigured == stage # "new" /\ cfg.ok

ExplicitToken == cfg.Token.st = "known" /\ cfg.Token.v # ""

\* C11: the provider's Configure uses an explicitly configured non-empty token
\* as it is, otherwise a non-empty AIDBOX_TOKEN; when both are absent or empty
\* it reports an error and hands out no provider data (no client, endpoint or
\* token), so configuration never gets through with an empty token
C11_TokenPrecedence ==
  /\ (ProviderConfigured /\ ExplicitToken) =>
        /\ pdone.diags = <<>>
        /\ pdone.Token = cfg.Token.v
        /\ provider = "AidboxProvider" =>
              pdone.ResourceData.Token = cfg.Token.v /\ c.Token = cfg.Token.v
  /\ (ProviderConfigured /\ ~ExplicitToken /\ env # "") =>
        /\ pdone.diags = <<>>
        /\ pdone.Token = env
        /\ provider = "AidboxProvider" =>
              pdone.ResourceData.Token = env /\ c.Token = env
  /\ (ProviderConfigured /\ ~ExplicitToken /\ env = "") =>
        /\ pdone.diags = <<NoTokenError>>
        /\ pdone.ResourceData = NilData
        /\ c = NoClient
        /\ stage = "provider-failed"
  /\ stage = "ready" => pdone.Token # "" /\ (draft = 2 => r.token # "")

C11_Witness ==
  /\ op = "ProviderConfigure"
  /\ provider = "AidboxProvider"
  /\ cfg.ok /\ cfg.Token = Known("") /\ env = ""
  /\ pdone.diags = <<NoTokenError>>
  /\ pdone.ResourceData = NilData
  /\ stage = "provider-failed"

====
